---------------------------- MODULE Spec2Model ----------------------------
(***************************************************************************)
(* Model of the CF-RU5102 UHF RFID reader driver (src/src/lib.rs,          *)
(* src/src/error.rs): the packet codec (Command::to_bytes,                 *)
(* Response::from_bytes, the MCRF4XX CRC), the payload builders            *)
(* (ReadCommand, WriteCommand, KillCommand), the status classifier         *)
(* (impl From<ResponseStatus> for Error) and the Reader facade             *)
(* (send_receive and the five public operations).                          *)
(*                                                                         *)
(* Bytes are naturals in 0..255, byte vectors are sequences (1-based, so   *)
(* Rust's bytes[i] is bytes[i + 1] here).  A Rust panic (a failed assert,  *)
(* an index out of bounds, an unwrap of Err) is the outcome "Panic".       *)
(***************************************************************************)
EXTENDS Integers, Sequences, FiniteSets, TLC

VARIABLES
    pc,         \* position of the current public call of the Reader
    op,         \* the public operation being executed
    request,    \* its argument (a ReadCommand, WriteCommand, KillCommand)
    cmd_bytes,  \* send_receive: the serialized command
    written,    \* the bytes of cmd_bytes the channel accepted
    nwrites,    \* number of writes to the channel within the call
    rx,         \* bytes the device has put on the channel, not yet read
    response,   \* send_receive: the bytes read so far
    decoded,    \* whether Response::from_bytes got past its length assert
    result,     \* what the public operation returned to its caller
    probe       \* codec-level call (as made by the unit tests): fn, arg, ret

vars == <<pc, op, request, cmd_bytes, written, nwrites, rx, response,
          decoded, result, probe>>

-----------------------------------------------------------------------------
(* Bounds of the model *)

\* longest payload / packet content enumerated byte by byte
MaxPayloadLen == 2
MaxBodyLen == 4
\* inventory replies: number of tags and bytes per tag
MaxTags == 2
MaxTagLen == 1
\* longest proper prefix of the command a short write accepts
MaxPartial == 1
\* longest EPC (in bytes) given to the payload builders
MaxEpcLen == 2

-----------------------------------------------------------------------------
(* Bytes and the CRC *)

RECURSIVE BitXor(_, _, _)
BitXor(a, b, n) ==
    IF n = 0 THEN 0
    ELSE (((a % 2) + (b % 2)) % 2) + 2 * BitXor(a \div 2, b \div 2, n - 1)

\* ^ on u8, tabulated
Xor8 == [a \in 0..255 |-> [b \in 0..255 |-> BitXor(a, b, 8)]]

\* ^ on u16
Xor16(a, b) == 256 * Xor8[a \div 256][b \div 256] + Xor8[a % 256][b % 256]

\* MCRF4XX: reflected polynomial 0x8408 (0x1021 bit-reversed)
RECURSIVE TableEntry(_, _)
TableEntry(c, k) ==
    IF k = 0 THEN c
    ELSE TableEntry(IF c % 2 = 1 THEN Xor16(c \div 2, 33800) ELSE c \div 2,
                    k - 1)

CrcTable == [i \in 0..255 |-> TableEntry(i, 8)]

\* one step of the table-driven update, for one byte
CrcUpdate(crc, byte) ==
    Xor16(crc \div 256, CrcTable[Xor8[crc % 256][byte]])

\* the update folded over data[lo..hi], left to right (split in halves, the
\* left half evaluated first, to keep the evaluation shallow)
RECURSIVE CrcFrom(_, _, _, _)
CrcFrom(crc, data, lo, hi) ==
    IF lo > hi THEN crc
    ELSE IF lo = hi THEN CrcUpdate(crc, data[lo])
    ELSE LET mid == (lo + hi) \div 2
             left == CrcFrom(crc, data, lo, mid)
         IN  IF left >= 0 THEN CrcFrom(left, data, mid + 1, hi) ELSE left

\* State::<MCRF4XX>::calculate(data): initial value 0xFFFF, no final xor
calculate_crc(data) == CrcFrom(65535, data, 1, Len(data))

\* Rust's `x as u8`
AsU8(x) == x % 256

-----------------------------------------------------------------------------
(* enum CommandType (as u8) and enum ResponseStatus (repr(u8)) *)

Inventory == 1
ReadData == 2
WriteData == 3
KillTag == 5
GetReaderInformation == 33

CommandTypes ==
    (1..16) \cup (80..85) \cup {33, 34, 36, 37, 40, 47, 51}

OK == 0
ReturnBeforeInventoryFinished == 1
ScanTimeOverflow == 2
MoreData == 3
ReaderFlashFull == 4
AccessPasswordError == 5
KillTagError == 9
KillPasswordZero == 10
CommandNotSupported == 11
SaveFail == 19
CannotAdjust == 20
CommandExecuteError == 249
PoorCommunication == 250
NoTags == 251
TagError == 252
WrongLength == 253
IllegalCommand == 254
ParameterError == 255

\* the values ResponseStatus::try_from accepts
ResponseStatus ==
    {OK, ReturnBeforeInventoryFinished, ScanTimeOverflow, MoreData,
     ReaderFlashFull, AccessPasswordError, KillTagError, KillPasswordZero,
     CommandNotSupported, SaveFail, CannotAdjust, CommandExecuteError,
     PoorCommunication, NoTags, TagError, WrongLength, IllegalCommand,
     ParameterError}

is_success(status) ==
    status \in {OK, ReturnBeforeInventoryFinished, ScanTimeOverflow, MoreData}

-----------------------------------------------------------------------------
(* Results: Ok(value), the variants of error::Error, or a panic *)

Ok(v) == [kind |-> "Ok", value |-> v]
Io == [kind |-> "Io"]
Communication(s) == [kind |-> "Communication", status |-> s]
Protocol(s) == [kind |-> "Protocol", status |-> s]
Program(m) == [kind |-> "Program", msg |-> m]
Panic(m) == [kind |-> "Panic", msg |-> m]

\* (variant: CommandNotSupported left to the catch-all arm)
ErrorFrom_NoCommandNotSupported(e) ==
    CASE e = PoorCommunication -> Communication(e)
      [] e = NoTags -> Communication(e)
      [] e = AccessPasswordError -> Protocol(e)
      [] e = KillTagError -> Protocol(e)
      [] e = KillPasswordZero -> Protocol(e)
      [] e = WrongLength -> Program("Wrong command length")
      [] e = IllegalCommand -> Program("Illegal command")
      [] e = ParameterError -> Program("Parameter error")
      [] OTHER -> Program("Invalid status response")

\* impl From<ResponseStatus> for Error
ErrorFrom(e) ==
    CASE e = PoorCommunication -> Communication(e)
      [] e = NoTags -> Communication(e)
      [] e = AccessPasswordError -> Protocol(e)
      [] e = KillTagError -> Protocol(e)
      [] e = KillPasswordZero -> Protocol(e)
      [] e = CommandNotSupported -> Protocol(e)
      [] e = WrongLength -> Program("Wrong command length")
      [] e = IllegalCommand -> Program("Illegal command")
      [] e = ParameterError -> Program("Parameter error")
      [] OTHER -> Program("Invalid status response")

-----------------------------------------------------------------------------
(* Command::to_bytes and Response::from_bytes *)

\* (variant: the CRC trailer pushed high byte first)
Command_to_bytes_CrcHighFirst(self) ==
    LET pkt_len == AsU8(Len(self.data) + 4)
        pkt == <<pkt_len, self.address, self.command>> \o self.data
        crc == calculate_crc(pkt)
    IN  pkt \o <<(crc \div 256) % 256, crc % 256>>

\* a Command is [address, command, data]
Command_to_bytes(self) ==
    LET pkt_len == AsU8(Len(self.data) + 4)
        pkt == <<pkt_len, self.address, self.command>> \o self.data
        crc == calculate_crc(pkt)
    IN  pkt \o <<crc % 256, (crc \div 256) % 256>>

\* the assert_eq! on the first line of Response::from_bytes
LengthAssertHolds(bytes) == Len(bytes) >= 1 /\ bytes[1] = Len(bytes) - 1

\* (variant: the CRC comparison left out)
Response_from_bytes_NoCrcCheck(bytes) ==
    LET len == Len(bytes) IN
    IF ~LengthAssertHolds(bytes) THEN Panic("assertion failed")
    ELSE IF len < 2 THEN Panic("slice index")
    ELSE
      LET payload == SubSeq(bytes, 2, len - 2)
      IN  IF Len(payload) < 3 THEN Panic("index out of bounds")
          ELSE IF payload[3] \notin ResponseStatus THEN Panic("unwrap on Err")
          ELSE Ok([address |-> payload[1],
                   command |-> payload[2],
                   status  |-> payload[3],
                   data    |-> SubSeq(payload, 4, Len(payload))])

\* (variant: data sliced from payload[2..], keeping the status byte)
Response_from_bytes_DataFromStatus(bytes) ==
    LET len == Len(bytes) IN
    IF ~LengthAssertHolds(bytes) THEN Panic("assertion failed")
    ELSE IF len < 2 THEN Panic("slice index")
    ELSE
      LET crc == calculate_crc(SubSeq(bytes, 1, len - 2))
          payload_crc == bytes[len] * 256 + bytes[len - 1]
          payload == SubSeq(bytes, 2, len - 2)
      IN  IF payload_crc # crc THEN Program("Bad CRC")
          ELSE IF Len(payload) < 3 THEN Panic("index out of bounds")
          ELSE IF payload[3] \notin ResponseStatus THEN Panic("unwrap on Err")
          ELSE Ok([address |-> payload[1],
                   command |-> payload[2],
                   status  |-> payload[3],
                   data    |-> SubSeq(payload, 3, Len(payload))])

Response_from_bytes(bytes) ==
    LET len == Len(bytes) IN
    IF ~LengthAssertHolds(bytes) THEN Panic("assertion failed")
    ELSE IF len < 2 THEN Panic("slice index")
    ELSE
      LET crc == calculate_crc(SubSeq(bytes, 1, len - 2))
          payload_crc == bytes[len] * 256 + bytes[len - 1]
          payload == SubSeq(bytes, 2, len - 2)
      IN  IF payload_crc # crc THEN Program("Bad CRC")
          ELSE IF Len(payload) < 3 THEN Panic("index out of bounds")
          ELSE IF payload[3] \notin ResponseStatus THEN Panic("unwrap on Err")
          ELSE Ok([address |-> payload[1],
                   command |-> payload[2],
                   status  |-> payload[3],
                   data    |-> SubSeq(payload, 4, Len(payload))])

-----------------------------------------------------------------------------
(* Payload builders.  Option<T> is a sequence of length 0 (None) or 1      *)
(* (Some(x)), so `if let Some(x) = o { pkt.push(x) }` appends o.           *)

None == <<>>
Some(x) == <<x>>

\* enum MemoryLocation (as u8): Password, EPC, TID, User
MemoryLocation == 0..3

\* if let Some(p) = &self.password { p } else { vec![0, 0, 0, 0] }
PasswordOrZero(password) ==
    IF password # None THEN password[1] ELSE <<0, 0, 0, 0>>

ReadCommand_to_bytes(self) ==
    <<AsU8(Len(self.epc)) \div 2>> \o self.epc
        \o <<self.location, self.start_address, self.count>>
        \o PasswordOrZero(self.password)
        \o self.mask_address \o self.mask_length

WriteCommand_to_bytes(self) ==
    <<AsU8(Len(self.data)) \div 2, AsU8(Len(self.epc)) \div 2>> \o self.epc
        \o <<self.location, self.start_address>>
        \o self.data
        \o PasswordOrZero(self.password)
        \o self.mask_address \o self.mask_length

KillCommand_to_bytes(self) ==
    <<AsU8(Len(self.epc)) \div 2>> \o self.epc
        \o self.password
        \o self.mask_address \o self.mask_length

-----------------------------------------------------------------------------
(* Inputs of the codec-level calls *)

SeqsUpTo(S, n) == UNION {[1..k -> S] : k \in 0..n}

Zeros(n) == [i \in 1..n |-> 0]

\* OK, ReturnBeforeInventoryFinished, an unassigned status code, NoTags
ByteVals == {0, 1, 6, 251}

Addresses == {0, 10, 255}

\* short payloads byte by byte, and the payloads around the u8 limit
Payloads == SeqsUpTo(ByteVals, MaxPayloadLen) \cup {Zeros(251), Zeros(252)}

Commands == [address : Addresses, command : CommandTypes, data : Payloads]

Epcs == SeqsUpTo({226}, MaxEpcLen)

OptPasswords == {None, Some(<<1, 2, 3, 4>>), Some(<<1, 2>>)}

OptBytes == {None, Some(0), Some(16)}

ReadCommands ==
    [epc : Epcs, location : MemoryLocation, start_address : {0}, count : {2},
     password : OptPasswords, mask_address : OptBytes, mask_length : OptBytes]

WriteCommands ==
    [epc : Epcs, location : {1, 3}, start_address : {0},
     data : {<<>>, <<17, 34>>, Zeros(246)},
     password : OptPasswords, mask_address : OptBytes, mask_length : OptBytes]

KillCommands ==
    [epc : Epcs, password : {<<0, 0, 0, 0>>, <<1, 2, 3, 4>>, <<1, 2>>},
     mask_address : OptBytes, mask_length : OptBytes]

\* packets handed to Response::from_bytes: what follows the length byte and
\* precedes the CRC, framed with a right or a wrong length byte, followed
\* by the right CRC or an altered one
Contents == SeqsUpTo(ByteVals, MaxBodyLen)

CrcBytes(body) ==
    LET crc == calculate_crc(body) IN <<crc % 256, crc \div 256>>

Altered(t) ==
    {<<(t[1] + 1) % 256, t[2]>>, <<t[1], (t[2] + 1) % 256>>,
     <<(t[1] + 128) % 256, (t[2] + 7) % 256>>}

Packets ==
    {<<Len(c) + 2>> \o c \o CrcBytes(<<Len(c) + 2>> \o c) : c \in Contents}
    \cup UNION {{<<Len(c) + 2>> \o c \o t :
                   t \in Altered(CrcBytes(<<Len(c) + 2>> \o c))} :
                c \in Contents}
    \cup {<<Len(c) + 3>> \o c \o CrcBytes(<<Len(c) + 3>> \o c) :
            c \in Contents}
    \cup {<<0>>, <<1, 0>>, <<1, 255>>}

-----------------------------------------------------------------------------
(* The codec-level calls, as the crate's unit tests make them *)

NoProbe == [fn |-> "none", arg |-> <<>>, ret |-> <<>>]

Idle ==
    /\ pc = "Idle" /\ op = "none" /\ request = <<>> /\ cmd_bytes = <<>>
    /\ written = <<>> /\ nwrites = 0 /\ rx = <<>> /\ response = <<>>
    /\ decoded = FALSE /\ result = [kind |-> "None"]

facade == <<pc, op, request, cmd_bytes, written, nwrites, rx, response,
            decoded, result>>

InitCodec == Idle /\ probe = NoProbe

CallCommandToBytes ==
    /\ probe = NoProbe
    /\ \E cmd \in Commands :
        /\ probe' = [fn |-> "Command::to_bytes", arg |-> cmd,
                     ret |-> Command_to_bytes(cmd)]
        /\ UNCHANGED facade

CallResponseFromBytes ==
    /\ probe = NoProbe
    /\ \E bytes \in Packets :
        /\ probe' = [fn |-> "Response::from_bytes", arg |-> bytes,
                     ret |-> Response_from_bytes(bytes)]
        /\ UNCHANGED facade

\* Response::from_bytes(&cmd.to_bytes())
CallRoundTrip ==
    /\ probe = NoProbe
    /\ \E cmd \in Commands :
        /\ probe' = [fn |-> "round_trip", arg |-> cmd,
                     ret |-> Response_from_bytes(Command_to_bytes(cmd))]
        /\ UNCHANGED facade

CallReadCommandToBytes ==
    /\ probe = NoProbe
    /\ \E c \in ReadCommands :
        /\ probe' = [fn |-> "ReadCommand::to_bytes", arg |-> c,
                     ret |-> ReadCommand_to_bytes(c)]
        /\ UNCHANGED facade

CallWriteCommandToBytes ==
    /\ probe = NoProbe
    /\ \E c \in WriteCommands :
        /\ probe' = [fn |-> "WriteCommand::to_bytes", arg |-> c,
                     ret |-> WriteCommand_to_bytes(c)]
        /\ UNCHANGED facade

CallKillCommandToBytes ==
    /\ probe = NoProbe
    /\ \E c \in KillCommands :
        /\ probe' = [fn |-> "KillCommand::to_bytes", arg |-> c,
                     ret |-> KillCommand_to_bytes(c)]
        /\ UNCHANGED facade

\* the call is over and its values dropped
CallReturn ==
    /\ probe # NoProbe
    /\ probe' = NoProbe
    /\ UNCHANGED facade

NextCodec ==
    \/ CallCommandToBytes
    \/ CallResponseFromBytes
    \/ CallRoundTrip
    \/ CallReadCommandToBytes
    \/ CallWriteCommandToBytes
    \/ CallKillCommandToBytes
    \/ CallReturn

SpecCodec == InitCodec /\ [][NextCodec]_vars

-----------------------------------------------------------------------------
(* The Reader facade: the post-processing of each public operation *)

\* Reader { address: 0 } as Reader::new builds it; nothing assigns it later
Reader_address == 0

Unit == "()"

ReaderInformation_from_bytes(bytes) ==
    IF Len(bytes) # 8 THEN Panic("assertion failed")
    ELSE Ok([version |-> SubSeq(bytes, 1, 2),
             reader_type |-> bytes[3],
             supported_protocols |-> bytes[4],
             max_freq |-> bytes[5],
             min_freq |-> bytes[6],
             power |-> bytes[7],
             scan_time |-> bytes[8]])

\* the for loop of Reader::inventory: `left` iterations to go, `offset` the
\* (0-based) running offset into data, `tags` the tags pushed so far
RECURSIVE ParseTags(_, _, _, _)
ParseTags(data, offset, left, tags) ==
    IF left = 0 THEN [ok |-> TRUE, tags |-> tags, offset |-> offset]
    ELSE IF offset >= Len(data)
    THEN [ok |-> FALSE, tags |-> tags, offset |-> offset]
    ELSE LET tag_len == data[offset + 1]
             start == offset + 1
         IN  IF start + tag_len > Len(data)
             THEN [ok |-> FALSE, tags |-> tags, offset |-> start]
             ELSE ParseTags(data, start + tag_len, left - 1,
                            Append(tags,
                                   SubSeq(data, start + 1, start + tag_len)))

\* (variant: the running offset starts on the count byte)
Reader_inventory_OffsetZero(res) ==
    IF res.kind # "Ok" THEN res
    ELSE IF res.value.status = NoTags THEN Ok(<<>>)
    ELSE IF ~is_success(res.value.status) THEN ErrorFrom(res.value.status)
    ELSE IF res.value.data = <<>> THEN Panic("index out of bounds")
    ELSE LET parse == ParseTags(res.value.data, 0, res.value.data[1], <<>>)
         IN  IF parse.ok THEN Ok(parse.tags)
             ELSE Panic("index out of bounds")

\* each operation below takes the result of send_receive; `?` hands an error
\* (and a panic unwinds) to the caller unchanged
Reader_inventory(res) ==
    IF res.kind # "Ok" THEN res
    ELSE IF res.value.status = NoTags THEN Ok(<<>>)
    ELSE IF ~is_success(res.value.status) THEN ErrorFrom(res.value.status)
    ELSE IF res.value.data = <<>> THEN Panic("index out of bounds")
    ELSE LET parse == ParseTags(res.value.data, 1, res.value.data[1], <<>>)
         IN  IF parse.ok THEN Ok(parse.tags)
             ELSE Panic("index out of bounds")

Reader_reader_information(res) ==
    IF res.kind # "Ok" THEN res
    ELSE IF ~is_success(res.value.status) THEN ErrorFrom(res.value.status)
    ELSE ReaderInformation_from_bytes(res.value.data)

Reader_read_data(res) ==
    IF res.kind # "Ok" THEN res
    ELSE IF ~is_success(res.value.status) THEN ErrorFrom(res.value.status)
    ELSE Ok(res.value.data)

Reader_write_data(res) ==
    IF res.kind # "Ok" THEN res
    ELSE IF ~is_success(res.value.status) THEN ErrorFrom(res.value.status)
    ELSE Ok(Unit)

Reader_kill(res) ==
    IF res.kind # "Ok" THEN res
    ELSE IF ~is_success(res.value.status) THEN ErrorFrom(res.value.status)
    ELSE Ok(Unit)

Finish(o, res) ==
    CASE o = "reader_information" -> Reader_reader_information(res)
      [] o = "inventory" -> Reader_inventory(res)
      [] o = "read_data" -> Reader_read_data(res)
      [] o = "write_data" -> Reader_write_data(res)
      [] o = "kill" -> Reader_kill(res)

\* the CommandType each public operation sends
CommandTypeOf(o) ==
    CASE o = "reader_information" -> GetReaderInformation
      [] o = "inventory" -> Inventory
      [] o = "read_data" -> ReadData
      [] o = "write_data" -> WriteData
      [] o = "kill" -> KillTag

\* the payload each public operation builds from its argument
PayloadOf(o, arg) ==
    CASE o = "reader_information" -> <<>>
      [] o = "inventory" -> <<>>
      [] o = "read_data" -> ReadCommand_to_bytes(arg)
      [] o = "write_data" -> WriteCommand_to_bytes(arg)
      [] o = "kill" -> KillCommand_to_bytes(arg)

\* the Command each public operation builds
CommandOf(o, arg) ==
    [address |-> Reader_address, command |-> CommandTypeOf(o),
     data |-> PayloadOf(o, arg)]

-----------------------------------------------------------------------------
(* Inputs of the facade: the caller's arguments and the device's replies *)

CallerReadCommands ==
    {c \in ReadCommands :
        /\ c.epc = <<226, 226>> /\ c.location = 2
        /\ c.password \in {None, Some(<<1, 2, 3, 4>>)}
        /\ <<c.mask_address, c.mask_length>>
               \in {<<None, None>>, <<Some(0), Some(16)>>}}

CallerWriteCommands ==
    {c \in WriteCommands :
        /\ c.epc = <<>> /\ c.location = 3 /\ c.password = None
        /\ c.data \in {<<17, 34>>, Zeros(246)}
        /\ c.mask_address = None /\ c.mask_length = None}

CallerKillCommands ==
    {c \in KillCommands :
        /\ c.epc = <<226, 226>> /\ c.password = <<1, 2, 3, 4>>
        /\ c.mask_address = None /\ c.mask_length = None}

Calls ==
    {[op |-> "reader_information", arg |-> <<>>],
     [op |-> "inventory", arg |-> <<>>]}
    \cup {[op |-> "read_data", arg |-> c] : c \in CallerReadCommands}
    \cup {[op |-> "write_data", arg |-> c] : c \in CallerWriteCommands}
    \cup {[op |-> "kill", arg |-> c] : c \in CallerKillCommands}

\* the tag list a device reports, as the payload of an inventory reply:
\* [n, len_1, ...tag_1, ..., len_n, ...tag_n]
RECURSIVE TagRecords(_)
TagRecords(tags) ==
    IF tags = <<>> THEN <<>>
    ELSE <<Len(Head(tags))>> \o Head(tags) \o TagRecords(Tail(tags))

EncodeTags(tags) == <<Len(tags)>> \o TagRecords(tags)

TagBytes == {170, 17}

TagLists == SeqsUpTo(SeqsUpTo(TagBytes, MaxTagLen), MaxTags)

\* status bytes a device sends: every enumerated code and an unassigned one
DeviceStatuses == ResponseStatus \cup {6}

\* payloads a device sends with a status byte: tag lists and lists cut
\* short or with bytes to spare (inventory), an 8-byte record and shorter
\* ones (reader_information), tag memory (read_data)
DevicePayloads(o, status) ==
    IF ~is_success(status) THEN {<<>>}
    ELSE CASE o = "inventory" ->
                  {EncodeTags(t) : t \in TagLists}
                  \cup {<<>>, <<1>>, <<1, 2, 170>>, <<0, 9>>, <<2, 1, 170>>}
           [] o = "reader_information" ->
                  {<<1, 9, 5, 3, 62, 0, 30, 10>>, <<1, 9, 5, 3, 62, 0, 30>>,
                   <<>>}
           [] o = "read_data" -> {<<>>, <<222, 173>>}
           [] OTHER -> {<<>>}

\* a reply packet of the device, with its CRC
ReplyPacket(o, status, data) ==
    LET body == <<Len(data) + 5, Reader_address,
                  CommandTypeOf(o), status>> \o data
    IN  body \o CrcBytes(body)

\* what arrives on the channel after a command: a whole reply, one whose CRC
\* was damaged on the line, one that stops early, or nothing
DeviceReplies(o) ==
    LET whole == UNION {{ReplyPacket(o, st, d) : d \in DevicePayloads(o, st)} :
                        st \in DeviceStatuses}
    IN  whole
        \cup {[p EXCEPT ![Len(p)] = (@ + 1) % 256] : p \in whole}
        \cup {SubSeq(p, 1, Len(p) - 1) : p \in whole}
        \cup {<<>>, <<0>>}

\* how many bytes of a buffer of n bytes one write accepts: all of them, or
\* only the first few
WriteCounts(n) == {k \in 1..n : k <= MaxPartial \/ k = n}

-----------------------------------------------------------------------------
(* The Reader facade: one public call at a time *)

Init == Idle /\ probe = NoProbe

\* a public operation is called: it builds its Command, and send_receive
\* serializes it
Call ==
    /\ pc = "Idle"
    /\ \E c \in Calls :
        /\ op' = c.op
        /\ request' = c.arg
        /\ cmd_bytes' = Command_to_bytes(CommandOf(c.op, c.arg))
    /\ pc' = "Sending"
    /\ UNCHANGED <<written, nwrites, rx, response, decoded, result, probe>>

\* std::io::Write::write(&mut self.port, &cmd_bytes)?: one write, which
\* accepts some or all of the bytes (the count it returns is dropped) or
\* fails; the device then answers, or not
Write ==
    /\ pc = "Sending"
    /\ nwrites' = nwrites + 1
    /\ \/ /\ \E k \in WriteCounts(Len(cmd_bytes)) :
                written' = SubSeq(cmd_bytes, 1, k)
          /\ \E reply \in DeviceReplies(op) : rx' = reply
          /\ pc' = "AwaitingLength"
          /\ UNCHANGED result
       \/ /\ result' = Io
          /\ pc' = "Done"
          /\ UNCHANGED <<written, rx>>
    /\ UNCHANGED <<op, request, cmd_bytes, response, decoded, probe>>

\* read_exact of the length byte: a byte, or the channel's timeout
ReadLength ==
    /\ pc = "AwaitingLength"
    /\ \/ /\ rx # <<>>
          /\ response' = <<Head(rx)>>
          /\ rx' = Tail(rx)
          /\ pc' = "AwaitingBody"
          /\ UNCHANGED result
       \/ /\ rx = <<>>
          /\ result' = Io
          /\ pc' = "Done"
          /\ UNCHANGED <<rx, response>>
    /\ UNCHANGED <<op, request, cmd_bytes, written, nwrites, decoded, probe>>

\* take(len).read_to_end(&mut response)?: reads until len bytes have come,
\* or the channel reports its end (fewer bytes, no error), or fails (the
\* bytes that had come are consumed all the same)
ReadBody ==
    /\ pc = "AwaitingBody"
    /\ LET len == response[1] IN
       \/ /\ Len(rx) >= len
          /\ response' = response \o SubSeq(rx, 1, len)
          /\ rx' = SubSeq(rx, len + 1, Len(rx))
          /\ pc' = "Validating"
          /\ UNCHANGED result
       \/ /\ Len(rx) < len
          /\ response' = response \o rx
          /\ rx' = <<>>
          /\ pc' = "Validating"
          /\ UNCHANGED result
       \/ /\ Len(rx) < len
          /\ response' = response \o rx
          /\ rx' = <<>>
          /\ result' = Io
          /\ pc' = "Done"
    /\ UNCHANGED <<op, request, cmd_bytes, written, nwrites, decoded, probe>>

\* Response::from_bytes(&response)?, then the operation's own handling of
\* the status and the payload, up to its return
Validate ==
    /\ pc = "Validating"
    /\ decoded' = LengthAssertHolds(response)
    /\ result' = Finish(op, Response_from_bytes(response))
    /\ pc' = "Done"
    /\ UNCHANGED <<op, request, cmd_bytes, written, nwrites, rx, response,
                   probe>>

\* the caller has its result; the Reader is ready for the next call
Return ==
    /\ pc = "Done"
    /\ pc' = "Idle"
    /\ op' = "none"
    /\ request' = <<>>
    /\ cmd_bytes' = <<>>
    /\ written' = <<>>
    /\ nwrites' = 0
    /\ response' = <<>>
    /\ decoded' = FALSE
    /\ result' = [kind |-> "None"]
    /\ UNCHANGED <<rx, probe>>

Next ==
    \/ Call
    \/ Write
    \/ ReadLength
    \/ ReadBody
    \/ Validate
    \/ Return

Spec == Init /\ [][Next]_vars

-----------------------------------------------------------------------------
(* CRC-16/MCRF4XX by its definition, bit by bit: polynomial 0x1021 with     *)
(* reflected input and output (0x8408 shifting right), initial value       *)
(* 0xFFFF, no final xor.  The properties below compare the packets with    *)
(* this definition, not with the table-driven calculate_crc.               *)

RECURSIVE ShiftBits(_, _)
ShiftBits(c, k) ==
    IF k = 0 THEN c
    ELSE ShiftBits(IF c % 2 = 1 THEN BitXor(c \div 2, 33800, 16)
                   ELSE c \div 2, k - 1)

RECURSIVE Mcrf4xxFrom(_, _, _, _)
Mcrf4xxFrom(crc, data, lo, hi) ==
    IF lo > hi THEN crc
    ELSE IF lo = hi THEN ShiftBits(BitXor(crc, data[lo], 16), 8)
    ELSE LET mid == (lo + hi) \div 2
             left == Mcrf4xxFrom(crc, data, lo, mid)
         IN  IF left >= 0 THEN Mcrf4xxFrom(left, data, mid + 1, hi) ELSE left

Mcrf4xx(data) == Mcrf4xxFrom(65535, data, 1, Len(data))

\* the vector of test_crc: the CRC of "abcdef"
CrcVector == calculate_crc(<<97, 98, 99, 100, 101, 102>>) = 64265

-----------------------------------------------------------------------------
(* Properties of the codec, under SpecCodec *)

\* C1: for every address, operation code and payload of at most 251 bytes,
\* Command::to_bytes returns [length, address, operation, ...payload,
\* crc_lo, crc_hi] with length = payload length + 4 and the CRC that of
\* MCRF4XX over all bytes before the trailer, low byte first; {10,
\* Inventory, []} encodes to [4, 10, 1, 171, 182].
C1_CommandWireFormat ==
    /\ CrcVector
    /\ (probe.fn = "Command::to_bytes" /\ Len(probe.arg.data) <= 251) =>
        LET cmd == probe.arg
            pkt == probe.ret
            n == Len(cmd.data)
        IN  /\ Len(pkt) = n + 5
            /\ pkt[1] = n + 4
            /\ pkt[2] = cmd.address
            /\ pkt[3] = cmd.command
            /\ SubSeq(pkt, 4, n + 3) = cmd.data
            /\ pkt[n + 4] = Mcrf4xx(SubSeq(pkt, 1, n + 3)) % 256
            /\ pkt[n + 5] = Mcrf4xx(SubSeq(pkt, 1, n + 3)) \div 256
            /\ (cmd = [address |-> 10, command |-> Inventory, data |-> <<>>]
                    => pkt = <<4, 10, 1, 171, 182>>)

\* the command of test_command has been encoded
C1_Witness ==
    /\ probe.fn = "Command::to_bytes"
    /\ probe.arg = [address |-> 10, command |-> Inventory, data |-> <<>>]
    /\ probe.ret = <<4, 10, 1, 171, 182>>

\* a received packet whose length byte counts the bytes after it and that
\* has a status byte (header of 4 bytes, trailer of 2) holding a known code
WellFramed(bytes) ==
    /\ Len(bytes) >= 6
    /\ bytes[1] = Len(bytes) - 1
    /\ bytes[4] \in ResponseStatus

\* C2: for every well-framed packet with an enumerated status byte,
\* Response::from_bytes returns a Response if and only if the last two
\* bytes, little-endian, are the CRC of all preceding bytes; the Response
\* then has address = byte 1, operation echo = byte 2, status = byte 3 and
\* as payload the bytes between header and trailer; otherwise the result is
\* Error::Program("Bad CRC") and nothing else.
C2_ResponseIffCrc ==
    (probe.fn = "Response::from_bytes" /\ WellFramed(probe.arg)) =>
        LET b == probe.arg
            n == Len(b)
            crc_ok == b[n - 1] + 256 * b[n] = Mcrf4xx(SubSeq(b, 1, n - 2))
        IN  /\ (probe.ret.kind = "Ok") <=> crc_ok
            /\ crc_ok => probe.ret = Ok([address |-> b[2],
                                         command |-> b[3],
                                         status  |-> b[4],
                                         data    |-> SubSeq(b, 5, n - 2)])
            /\ ~crc_ok => probe.ret = Program("Bad CRC")

\* the packet of test_response has been decoded
C2_Witness ==
    /\ probe.fn = "Response::from_bytes"
    /\ probe.arg = <<5, 0, 1, 251, 242, 61>>
    /\ probe.ret = Ok([address |-> 0, command |-> 1, status |-> NoTags,
                       data |-> <<>>])

\* C4 as stated: decoding the bytes of an encoded command (payload of at
\* most 251 bytes) succeeds and gives back the address, the operation and
\* the payload unchanged.
C4_RoundTripRecoversPayload ==
    (probe.fn = "round_trip" /\ Len(probe.arg.data) <= 251) =>
        /\ probe.ret.kind = "Ok"
        /\ probe.ret.value.address = probe.arg.address
        /\ probe.ret.value.command = probe.arg.command
        /\ probe.ret.value.data = probe.arg.data

\* C4 (amended): the response layout has a status byte where the command
\* layout has the first payload byte.  For a payload of 1 to 251 bytes
\* whose first byte is an enumerated status code, decoding the encoded
\* command succeeds and gives back the address and the operation unchanged,
\* the first payload byte as status and the remaining payload bytes as
\* payload; for an empty payload, or a first byte that is no status code,
\* the decoding panics.
C4_RoundTripSplitsStatus ==
    (probe.fn = "round_trip" /\ Len(probe.arg.data) <= 251) =>
        LET cmd == probe.arg IN
        IF cmd.data # <<>> /\ Head(cmd.data) \in ResponseStatus
        THEN probe.ret = Ok([address |-> cmd.address,
                             command |-> cmd.command,
                             status  |-> Head(cmd.data),
                             data    |-> Tail(cmd.data)])
        ELSE probe.ret.kind = "Panic"

\* a command with a two-byte payload went through the round trip
C4_Witness ==
    /\ probe.fn = "round_trip"
    /\ probe.arg.data = <<NoTags, 1>>
    /\ probe.ret.kind = "Ok"
    /\ probe.ret.value.status = NoTags
    /\ probe.ret.value.data = <<1>>

\* the builder that made probe.ret, applied to another command
Builder(fn, c) ==
    CASE fn = "ReadCommand::to_bytes" -> ReadCommand_to_bytes(c)
      [] fn = "WriteCommand::to_bytes" -> WriteCommand_to_bytes(c)
      [] fn = "KillCommand::to_bytes" -> KillCommand_to_bytes(c)

BuilderFns ==
    {"ReadCommand::to_bytes", "WriteCommand::to_bytes",
     "KillCommand::to_bytes"}

\* C6: the payload builders append mask_address and mask_length only when
\* the caller supplies both; when either is absent the payload is as long as
\* with no mask at all.
C6_MaskBothOrNeither ==
    probe.fn \in BuilderFns =>
        LET c == probe.arg
            bare == [c EXCEPT !.mask_address = None, !.mask_length = None]
            both == c.mask_address # None /\ c.mask_length # None
        IN  IF both
            THEN probe.ret = Builder(probe.fn, bare)
                                \o c.mask_address \o c.mask_length
            ELSE probe.ret = Builder(probe.fn, bare)

\* C8: a ReadCommand's payload is [epc length / 2, ...epc, location,
\* start_address, count, ...password, mask fields] with a password field of
\* exactly 4 bytes (zeros when absent); without mask it is epc length + 8
\* bytes long whatever the caller passes as password.
C8_ReadPasswordFourBytes ==
    probe.fn = "ReadCommand::to_bytes" =>
        LET c == probe.arg
            p == probe.ret
            e == Len(c.epc)
        IN  /\ Len(p) = e + 8 + Len(c.mask_address) + Len(c.mask_length)
            /\ p[1] = e \div 2
            /\ SubSeq(p, 2, e + 1) = c.epc
            /\ SubSeq(p, e + 2, e + 4)
                   = <<c.location, c.start_address, c.count>>
            /\ SubSeq(p, e + 5, e + 8)
                   = (IF c.password = None THEN <<0, 0, 0, 0>>
                      ELSE c.password[1])
            /\ SubSeq(p, e + 9, Len(p)) = c.mask_address \o c.mask_length

-----------------------------------------------------------------------------
(* Properties of the Reader facade, under Spec *)

\* the last two bytes, little-endian, are the CRC of the bytes before them
CrcOk(bytes) ==
    bytes[Len(bytes) - 1] + 256 * bytes[Len(bytes)]
        = Mcrf4xx(SubSeq(bytes, 1, Len(bytes) - 2))

\* the call has ended on a response that is whole and has a valid CRC
GotValidResponse ==
    /\ pc = "Done"
    /\ Len(response) >= 6
    /\ response[1] = Len(response) - 1
    /\ CrcOk(response)

StatusByte == response[4]

PayloadBytes == SubSeq(response, 5, Len(response) - 2)

\* the classes of section 4.5
SuccessCodes == {OK, ReturnBeforeInventoryFinished, ScanTimeOverflow, MoreData}

CommunicationCodes == {PoorCommunication, NoTags}

ProtocolCodes ==
    {AccessPasswordError, KillTagError, KillPasswordZero, CommandNotSupported}

ProgramCodes ==
    {WrongLength, IllegalCommand, ParameterError, ReaderFlashFull, SaveFail,
     CannotAdjust, CommandExecuteError, TagError}

\* the class of a status that is not a success
ErrorClassHolds ==
    IF StatusByte = NoTags /\ op = "inventory" THEN result = Ok(<<>>)
    ELSE IF StatusByte \in CommunicationCodes
    THEN result = Communication(StatusByte)
    ELSE IF StatusByte \in ProtocolCodes THEN result = Protocol(StatusByte)
    ELSE StatusByte \in ProgramCodes /\ result.kind = "Program"

RECURSIVE RecordsFit(_, _, _)
RecordsFit(data, offset, n) ==
    \/ n = 0
    \/ /\ offset < Len(data)
       /\ offset + 1 + data[offset + 1] <= Len(data)
       /\ RecordsFit(data, offset + 1 + data[offset + 1], n - 1)

\* the payload of a success response can be turned into the operation's
\* return value
Decodable(o, data) ==
    CASE o = "reader_information" -> Len(data) = 8
      [] o = "inventory" -> data # <<>> /\ RecordsFit(data, 1, data[1])
      [] OTHER -> TRUE

C5_LengthByteIsPayloadPlusFour ==
    /\ pc # "Idle" => cmd_bytes[1] = Len(PayloadOf(op, request)) + 4
    /\ written # <<>> => written[1] = Len(PayloadOf(op, request)) + 4

\* C7: a CRC-valid response whose status byte is no enumerated code makes
\* the public operation return Error::Program.
C7_UnknownStatusIsProgramError ==
    (GotValidResponse /\ StatusByte \notin ResponseStatus) =>
        result.kind = "Program"

\* C9: when inventory gets a success response whose payload is [n, len_1,
\* ...tag_1, ..., len_n, ...tag_n], it returns exactly those n tags in that
\* order, and the running offset ends on the end of the payload.
C9_InventoryReturnsTags ==
    (GotValidResponse /\ op = "inventory" /\ StatusByte \in SuccessCodes) =>
        \A tags \in TagLists :
            PayloadBytes = EncodeTags(tags) =>
                /\ result = Ok(tags)
                /\ ParseTags(PayloadBytes, 1, Len(tags), <<>>).offset
                       = Len(PayloadBytes)

\* an inventory returned two tags
C9_Witness ==
    /\ GotValidResponse
    /\ op = "inventory"
    /\ PayloadBytes = <<2, 1, 170, 1, 17>>
    /\ result = Ok(<< <<170>>, <<17>> >>)

\* C10: every public operation writes the whole command before it reads,
\* then reads exactly 1 length byte, then exactly `length` further bytes,
\* and only then decodes; the response is never decoded from fewer bytes
\* than announced, and the command is written once.
C10_OneOrderedExchange ==
    /\ pc \in {"AwaitingLength", "AwaitingBody", "Validating"}
           => written = cmd_bytes
    /\ pc = "AwaitingBody" => Len(response) = 1
    /\ pc = "Validating" => Len(response) = 1 + response[1]
    /\ decoded => Len(response) = 1 + response[1]
    /\ nwrites <= 1

=============================================================================
